---- MODULE Spec2Model ----
(***************************************************************************)
(* Model of the ts-template setup wizard (setup/setup.ts): the prompt      *)
(* sequence, the feature registry, the resolution of deselected features,  *)
(* the cross-feature cleanup rules, the manifest rewrite, file removal,    *)
(* the reinstall, the README generation and the license step.              *)
(*                                                                         *)
(* A path is the sequence of its components: ".github/workflows" is        *)
(* <<".github", "workflows">>.  A JSON text is a record [ok, pairs]: ok    *)
(* says whether it parses, pairs are the key/value members in the order    *)
(* they are written (a key may be written twice).                          *)
(***************************************************************************)
EXTENDS Integers, Sequences, FiniteSets, TLC

\* ---------------------------------------------------------------- bounds

\* devDependency version values found in the manifest on disk: 1..MaxDepVersion
MaxDepVersion == 1

\* ------------------------------------------------------------- utilities

Range(s) == { s[i] : i \in DOMAIN s }

Contains(s, x) == \E i \in DOMAIN s : s[i] = x

IndexOf(s, x) == IF Contains(s, x) THEN CHOOSE i \in DOMAIN s : s[i] = x /\ \A j \in 1..(i-1) : s[j] # x ELSE 0

IsPrefix(p, q) == Len(p) <= Len(q) /\ SubSeq(q, 1, Len(p)) = p

EmptyMap == [x \in {} |-> 0]

\* lines of a text, each line the fragments it is put together from
Lines(strs) == [ i \in DOMAIN strs |-> <<strs[i]>> ]

\* ------------------------------------------------------ feature registry

FeatureKeys == <<"gitHooks", "githubTemplates", "githubCI", "markdownlint", "codeOfConduct", "claudeCode">>

FEATURES ==
  [ gitHooks        |-> [ files |-> << <<".husky">>, <<"commitlint.config.js">>, <<".lintstagedrc">> >>,
                          devDeps |-> <<"@commitlint/cli", "@commitlint/config-conventional", "husky", "lint-staged">>,
                          hasScripts |-> TRUE, scripts |-> <<"prepare">> ],
    githubTemplates |-> [ files |-> << <<".github", "ISSUE_TEMPLATE">>, <<".github", "PULL_REQUEST_TEMPLATE.md">> >>,
                          devDeps |-> <<>>,
                          hasScripts |-> FALSE, scripts |-> <<>> ],
    githubCI        |-> [ files |-> << <<".github", "workflows">> >>,
                          devDeps |-> <<>>,
                          hasScripts |-> FALSE, scripts |-> <<>> ],
    markdownlint    |-> [ files |-> << <<".markdownlint.json">>, <<".markdownlintignore">> >>,
                          devDeps |-> <<"markdownlint-cli">>,
                          hasScripts |-> FALSE, scripts |-> <<>> ],
    codeOfConduct   |-> [ files |-> << <<"CODE_OF_CONDUCT.md">> >>,
                          devDeps |-> <<>>,
                          hasScripts |-> FALSE, scripts |-> <<>> ],
    claudeCode      |-> [ files |-> << <<"CLAUDE.md">> >>,
                          devDeps |-> <<>>,
                          hasScripts |-> FALSE, scripts |-> <<>> ] ]

\* the value the feature prompt starts from
initialValues == {"gitHooks", "githubTemplates", "githubCI", "markdownlint", "codeOfConduct"}

LicenseOptions == <<"MIT", "Apache-2.0", "ISC", "GPL-3.0-only", "UNLICENSED">>

\* the value the license prompt starts from
LicenseInitialValue == "MIT"

EntrypointDefault == <<"src", "index.ts">>

\* ------------------------------------------------------------ JSON texts

Malformed == [ok |-> FALSE, pairs |-> <<>>]

\* obj[key] = value on an object kept as an ordered list of members
SetMember(obj, k, v) ==
  IF \E i \in DOMAIN obj : obj[i][1] = k
  THEN [i \in DOMAIN obj |-> IF obj[i][1] = k THEN <<k, v>> ELSE obj[i]]
  ELSE Append(obj, <<k, v>>)

RECURSIVE ParseMembers(_, _)
ParseMembers(pairs, obj) ==
  IF pairs = <<>> THEN obj
  ELSE ParseMembers(Tail(pairs), SetMember(obj, Head(pairs)[1], Head(pairs)[2]))

\* JSON.parse of a text that parses: a repeated key keeps its first place and its last value
JSONparse(text) == ParseMembers(text.pairs, <<>>)

JSONstringify(obj) == [ok |-> TRUE, pairs |-> obj]

\* a delete that takes the member's value and leaves the key
DeleteMemberValue(obj, k) == [ i \in DOMAIN obj |-> IF obj[i][1] = k THEN <<k, 0>> ELSE obj[i] ]

\* delete obj[key]
DeleteMember(obj, k) == SelectSeq(obj, LAMBDA m : m[1] # k)

HasMember(obj, k) == \E i \in DOMAIN obj : obj[i][1] = k

\* ------------------------------------------------------------ file system

\* existsSync(join(PROJECT_DIR, p))
existsSync(fs, p) == p \in fs

\* rm -rf: the path and everything below it
RmRf(fs, p) == { q \in fs : ~IsPrefix(p, q) }

RECURSIVE removeFiles(_, _)
removeFiles(fs, paths) ==
  IF paths = <<>> THEN fs
  ELSE removeFiles(IF existsSync(fs, Head(paths)) THEN RmRf(fs, Head(paths)) ELSE fs, Tail(paths))

\* -------------------------------------------------------------- manifest

\* A package.json object: keys is the set of top-level keys it has; a field
\* whose key is not in keys is not there and its value is not read.
DevDepNames == {"@commitlint/cli", "@commitlint/config-conventional", "husky", "lint-staged", "markdownlint-cli", "@clack/prompts", "typescript"}

TemplateManifest(v) ==
  [ keys |-> {"name", "description", "version", "author", "license", "private", "main", "keywords", "scripts", "devDependencies", "bun-create"},
    description |-> "A modern TypeScript template",
    version |-> <<"D", ".", "D", ".", "D">>,
    author |-> "jorduino",
    license |-> "Apache-2.0",
    private |-> FALSE,
    main |-> EntrypointDefault,
    keywords |-> <<"template", "bun">>,
    scripts |-> [ start |-> <<"bun", "src", "index.ts">>, prepare |-> <<"husky">>, lint |-> <<"biome", "check">> ],
    devDependencies |-> [ d \in DevDepNames |-> v ] ]

\* a manifest that has neither scripts nor devDependencies
BareManifest ==
  [ TemplateManifest(1) EXCEPT !.keys = @ \ {"scripts", "devDependencies", "bun-create"},
                               !.scripts = EmptyMap, !.devDependencies = EmptyMap ]

\* a manifest from which some of the template's tooling was already taken out
PartialManifest ==
  [ TemplateManifest(1) EXCEPT !.keys = @ \ {"bun-create"},
                               !.scripts = [ start |-> <<"bun", "src", "index.ts">> ],
                               !.devDependencies = [ d \in {"husky", "markdownlint-cli", "typescript"} |-> 1 ] ]

MalformedPkg == [ok |-> FALSE, obj |-> BareManifest]

PkgText(obj) == [ok |-> TRUE, obj |-> obj]

\* --------------------------------------------------------- project on disk

TemplateFiles ==
  { <<"package.json">>, <<"README.md">>, <<"LICENSE">>, <<"src">>, <<"src", "index.ts">>,
    <<"setup">>, <<"setup", "setup.ts">>,
    <<".husky">>, <<".husky", "pre-commit">>, <<".husky", "commit-msg">>,
    <<"commitlint.config.js">>, <<".lintstagedrc">>,
    <<".github">>, <<".github", "ISSUE_TEMPLATE">>, <<".github", "ISSUE_TEMPLATE", "bug_report.md">>,
    <<".github", "PULL_REQUEST_TEMPLATE.md">>,
    <<".github", "workflows">>, <<".github", "workflows", "ci.yml">>,
    <<".markdownlint.json">>, <<".markdownlintignore">>,
    <<"CODE_OF_CONDUCT.md">>, <<"CLAUDE.md">>,
    <<".vscode">>, <<".vscode", "settings.json">> }

LintStagedPath == <<".lintstagedrc">>

VscodePath == <<".vscode", "settings.json">>

CiPath == <<".github", "workflows", "ci.yml">>

TemplateLintStaged == [ok |-> TRUE, pairs |-> << <<"*.md", 1>>, <<"*.ts", 2>> >>]

TemplateVscode == [ok |-> TRUE, pairs |-> << <<"editor.formatOnSave", 1>>, <<"[markdown]", 2>>, <<"[github-actions-workflow]", 3>> >>]

CommitlintLast == "bunx commitlint --last --verbose"

CommitlintRange == "bunx commitlint --from base --to head --verbose"

TemplateCi ==
  << [name |-> "Checkout", run |-> "checkout"],
     [name |-> "Install dependencies", run |-> "bun install"],
     [name |-> "Validate current commit", run |-> CommitlintLast],
     [name |-> "Validate PR commits", run |-> CommitlintRange],
     [name |-> "Test", run |-> "bun test"] >>

TemplateReadme == Lines(<<"# TS Template", "", "A modern TypeScript template with Bun, Biome, and pre-configured tooling.">>)

TemplateProject(v) ==
  [ files |-> TemplateFiles, pkg |-> PkgText(TemplateManifest(v)), lint |-> TemplateLintStaged,
    vscode |-> TemplateVscode, ci |-> TemplateCi ]

\* the projects the wizard is started in: the template as shipped, and the
\* template with one part customised, missing or broken
Projects ==
  { TemplateProject(v) : v \in 1..MaxDepVersion } \cup
  { [ TemplateProject(1) EXCEPT !.pkg = MalformedPkg ],
    [ TemplateProject(1) EXCEPT !.pkg = PkgText(BareManifest) ],
    [ TemplateProject(1) EXCEPT !.pkg = PkgText(PartialManifest) ],
    [ TemplateProject(1) EXCEPT !.lint = Malformed ],
    [ TemplateProject(1) EXCEPT !.lint = [ok |-> TRUE, pairs |-> << <<"*.md", 1>>, <<"*.ts", 2>>, <<"*.md", 3>>, <<"*.ts", 4>> >>] ],
    [ TemplateProject(1) EXCEPT !.lint = [ok |-> TRUE, pairs |-> << <<"*.ts", 2>> >>] ],
    [ TemplateProject(1) EXCEPT !.files = RmRf(@, LintStagedPath) ],
    [ TemplateProject(1) EXCEPT !.vscode = Malformed ],
    [ TemplateProject(1) EXCEPT !.files = RmRf(@, <<".vscode">>) ],
    [ TemplateProject(1) EXCEPT !.files = RmRf(RmRf(@, CiPath), <<"LICENSE">>) ],
    [ TemplateProject(1) EXCEPT !.ci = << [name |-> "Checkout", run |-> "checkout"],
                                          [name |-> "Validate current commit", run |-> "bunx commitlint --last"],
                                          [name |-> "Validate PR commits", run |-> CommitlintRange],
                                          [name |-> "Test", run |-> "bun test"] >> ] }

\* ----------------------------------------------------------- prompt inputs

\* what a prompt returns: the answer, or the cancel symbol
Answered(v) == [cancel |-> FALSE, value |-> v]

Cancelled(dummy) == [cancel |-> TRUE, value |-> dummy]

isCancel(r) == r.cancel

Descriptions == {"", "A tool"}

Authors == {"Ada <ada@example.com>"}

\* a version is typed as runs of digits "D", dots and other characters "x"
VersionInputs == { <<"D", ".", "D", ".", "D">>, <<"D", ".", "D", ".", "D", "x">>, <<"D", ".", "D">>, <<"x", "D", ".", "D", ".", "D">> }

Entrypoints == { EntrypointDefault, <<"src", "main.ts">> }

\* /^\d+\.\d+\.\d+/.test(v)
validate(v) == Len(v) >= 5 /\ v[1] = "D" /\ v[2] = "." /\ v[3] = "D" /\ v[4] = "." /\ v[5] = "D"

\* ------------------------------------------------------------------ state

VARIABLES
  pc,               \* the statement of main() the process is at
  exitCode,         \* -1 while running, else the code of process.exit / normal end
  asked,            \* the prompts shown so far, in order, and whether each was cancelled
  description, version, author, license, isPrivate, entrypoint, selectedFeatures,
  pkg,              \* the manifest object in memory
  deselected, depsToRemove, filesToRemove, scriptsToRemove,
  files,            \* the paths that exist under PROJECT_DIR
  pkgDisk, lintDisk, vscodeDisk, ciDisk, readmeDisk,   \* contents of the files the wizard reads or writes
  trace,            \* the side effects so far, in order
  start             \* the project as it was on disk when the wizard started

answerVars == <<description, version, author, license, isPrivate, entrypoint, selectedFeatures>>

memVars == <<pkg, deselected, depsToRemove, filesToRemove, scriptsToRemove>>

diskVars == <<files, pkgDisk, lintDisk, vscodeDisk, ciDisk, readmeDisk>>

vars == <<pc, exitCode, asked, answerVars, memVars, diskVars, trace, start>>

Init ==
  /\ pc = "description"
  /\ exitCode = -1
  /\ asked = <<>>
  /\ description = "" /\ version = <<>> /\ author = "" /\ license = ""
  /\ isPrivate = FALSE /\ entrypoint = <<>> /\ selectedFeatures = {}
  /\ pkg = BareManifest
  /\ deselected = <<>> /\ depsToRemove = <<>> /\ filesToRemove = <<>> /\ scriptsToRemove = <<>>
  /\ \E proj \in Projects :
       /\ files = proj.files
       /\ pkgDisk = proj.pkg
       /\ lintDisk = proj.lint
       /\ vscodeDisk = proj.vscode
       /\ ciDisk = proj.ci
       /\ start = proj
  /\ readmeDisk = TemplateReadme
  /\ trace = <<>>

\* ---------------------------------------------------------------- prompts

\* the cancel message without the exit
assertNotCancelledNoExit(r, next) ==
  /\ pc' = next
  /\ trace' = IF isCancel(r) THEN Append(trace, "cancel") ELSE trace
  /\ UNCHANGED exitCode

\* assertNotCancelled(value): a cancelled prompt prints the message and exits 0
assertNotCancelled(r, next) ==
  IF isCancel(r)
  THEN /\ pc' = "exited"
       /\ exitCode' = 0
       /\ trace' = Append(trace, "cancel")
  ELSE /\ pc' = next
       /\ UNCHANGED <<exitCode, trace>>

PromptDescription ==
  /\ pc = "description"
  /\ \E r \in { Answered(v) : v \in Descriptions } \cup { Cancelled(description) } :
       /\ asked' = Append(asked, [prompt |-> "description", cancelled |-> isCancel(r)])
       /\ description' = r.value
       /\ assertNotCancelled(r, "version")
  /\ UNCHANGED <<version, author, license, isPrivate, entrypoint, selectedFeatures, memVars, diskVars>>
  /\ UNCHANGED start

\* the prompt returns only a text its validate callback accepts
PromptVersion ==
  /\ pc = "version"
  /\ \E r \in { Answered(v) : v \in { w \in VersionInputs : validate(w) } } \cup { Cancelled(version) } :
       /\ asked' = Append(asked, [prompt |-> "version", cancelled |-> isCancel(r)])
       /\ version' = r.value
       /\ assertNotCancelled(r, "author")
  /\ UNCHANGED <<description, author, license, isPrivate, entrypoint, selectedFeatures, memVars, diskVars>>
  /\ UNCHANGED start

PromptAuthor ==
  /\ pc = "author"
  /\ \E r \in { Answered(v) : v \in Authors } \cup { Cancelled(author) } :
       /\ asked' = Append(asked, [prompt |-> "author", cancelled |-> isCancel(r)])
       /\ author' = r.value
       /\ assertNotCancelled(r, "license")
  /\ UNCHANGED <<description, version, license, isPrivate, entrypoint, selectedFeatures, memVars, diskVars>>
  /\ UNCHANGED start

PromptLicense ==
  /\ pc = "license"
  /\ \E r \in { Answered(v) : v \in Range(LicenseOptions) } \cup { Cancelled(license) } :
       /\ asked' = Append(asked, [prompt |-> "license", cancelled |-> isCancel(r)])
       /\ license' = r.value
       /\ assertNotCancelled(r, "private")
  /\ UNCHANGED <<description, version, author, isPrivate, entrypoint, selectedFeatures, memVars, diskVars>>
  /\ UNCHANGED start

PromptPrivate ==
  /\ pc = "private"
  /\ \E r \in { Answered(v) : v \in BOOLEAN } \cup { Cancelled(isPrivate) } :
       /\ asked' = Append(asked, [prompt |-> "private", cancelled |-> isCancel(r)])
       /\ isPrivate' = r.value
       /\ assertNotCancelled(r, "entrypoint")
  /\ UNCHANGED <<description, version, author, license, entrypoint, selectedFeatures, memVars, diskVars>>
  /\ UNCHANGED start

PromptEntrypoint ==
  /\ pc = "entrypoint"
  /\ \E r \in { Answered(v) : v \in Entrypoints } \cup { Cancelled(entrypoint) } :
       /\ asked' = Append(asked, [prompt |-> "entrypoint", cancelled |-> isCancel(r)])
       /\ entrypoint' = r.value
       /\ assertNotCancelled(r, "features")
  /\ UNCHANGED <<description, version, author, license, isPrivate, selectedFeatures, memVars, diskVars>>
  /\ UNCHANGED start

PromptFeatures ==
  /\ pc = "features"
  /\ \E r \in { Answered(v) : v \in SUBSET Range(FeatureKeys) } \cup { Cancelled(selectedFeatures) } :
       /\ asked' = Append(asked, [prompt |-> "features", cancelled |-> isCancel(r)])
       /\ selectedFeatures' = r.value
       /\ assertNotCancelled(r, "configure")
  /\ UNCHANGED <<description, version, author, license, isPrivate, entrypoint, memVars, diskVars>>
  /\ UNCHANGED start

\* ------------------------------------------------------------- resolution

\* the filter without its negation
DeselectedInverted(selected) == SelectSeq(FeatureKeys, LAMBDA k : k \in selected)

\* Object.keys(FEATURES).filter((k) => !selectedFeatures.includes(k))
Deselected(selected) == SelectSeq(FeatureKeys, LAMBDA k : k \notin selected)

RECURSIVE FilesOf(_)
FilesOf(keys) == IF keys = <<>> THEN <<>> ELSE FEATURES[Head(keys)].files \o FilesOf(Tail(keys))

RECURSIVE DepsOf(_)
DepsOf(keys) == IF keys = <<>> THEN <<>> ELSE FEATURES[Head(keys)].devDeps \o DepsOf(Tail(keys))

RECURSIVE ScriptsOf(_)
ScriptsOf(keys) ==
  IF keys = <<>> THEN <<>>
  ELSE (IF FEATURES[Head(keys)].hasScripts THEN FEATURES[Head(keys)].scripts ELSE <<>>) \o ScriptsOf(Tail(keys))

\* pkg.description = description; ... pkg.keywords = []; and the start script
UpdateMetadata(obj) ==
  [ obj EXCEPT !.keys = @ \cup {"description", "version", "author", "license", "private", "main", "keywords"},
               !.description = description,
               !.version = version,
               !.author = author,
               !.license = license,
               !.private = isPrivate,
               !.main = entrypoint,
               !.keywords = <<>>,
               !.scripts = IF entrypoint # EntrypointDefault /\ "scripts" \in obj.keys
                           THEN [ x \in (DOMAIN @) \cup {"start"} |-> IF x = "start" THEN <<"bun">> \o entrypoint ELSE @[x] ]
                           ELSE @ ]

\* the whole devDependencies map emptied instead of the listed keys
RemoveDevDepsAll(obj, deps) ==
  IF Len(deps) > 0 /\ "devDependencies" \in obj.keys
  THEN [ obj EXCEPT !.devDependencies = EmptyMap ]
  ELSE obj

\* if (depsToRemove.length > 0 && pkg.devDependencies) delete each of them
RemoveDevDeps(obj, deps) ==
  IF Len(deps) > 0 /\ "devDependencies" \in obj.keys
  THEN [ obj EXCEPT !.devDependencies = [ d \in (DOMAIN @) \ Range(deps) |-> @[d] ] ]
  ELSE obj

\* if (scriptsToRemove.length > 0 && pkg.scripts) delete each of them
RemoveScripts(obj, scripts) ==
  IF Len(scripts) > 0 /\ "scripts" \in obj.keys
  THEN [ obj EXCEPT !.scripts = [ x \in (DOMAIN @) \ Range(scripts) |-> @[x] ] ]
  ELSE obj

\* an exception reaches main().catch
Throw ==
  /\ pc' = "thrown"
  /\ trace' = Append(trace, "throw")
  /\ UNCHANGED exitCode

\* readPkg, the metadata, the deselected features and their files, deps and scripts
Configure ==
  /\ pc = "configure"
  /\ IF ~existsSync(files, <<"package.json">>) \/ ~pkgDisk.ok
     THEN /\ Throw
          /\ UNCHANGED memVars
     ELSE /\ deselected' = Deselected(selectedFeatures)
          /\ filesToRemove' = FilesOf(deselected')
          /\ depsToRemove' = DepsOf(deselected')
          /\ scriptsToRemove' = ScriptsOf(deselected')
          /\ pkg' = RemoveScripts(RemoveDevDeps(UpdateMetadata(pkgDisk.obj), depsToRemove'), scriptsToRemove')
          /\ pc' = "cleanLintStaged"
          /\ UNCHANGED <<exitCode, trace>>
  /\ UNCHANGED <<asked, answerVars, diskVars>>
  /\ UNCHANGED start

\* ---------------------------------------------------- cross-feature rules

\* ci.replace(/\n\s*- name: <name>.*?<end>\n/s, "\n"): the first step of that name
\* and everything up to the first later run line that ends the pattern
StripSteps(ci, name, ends) ==
  LET starts == { i \in DOMAIN ci : ci[i].name = name /\ \E j \in i..Len(ci) : ci[j].run \in ends }
  IN  IF starts = {} THEN ci
      ELSE LET i == CHOOSE x \in starts : \A y \in starts : x <= y
               j == CHOOSE x \in i..Len(ci) : ci[x].run \in ends /\ \A y \in i..(x-1) : ci[y].run \notin ends
           IN  SubSeq(ci, 1, i-1) \o SubSeq(ci, j+1, Len(ci))

StripCommitlint(ci) ==
  StripSteps(StripSteps(ci, "Validate current commit", {CommitlintLast}),
             "Validate PR commits", {CommitlintLast, CommitlintRange})

\* If markdownlint removed but git hooks kept, clean .lintstagedrc
CleanLintStaged ==
  /\ pc = "cleanLintStaged"
  /\ IF "markdownlint" \notin selectedFeatures /\ "gitHooks" \in selectedFeatures /\ existsSync(files, LintStagedPath)
     THEN IF ~lintDisk.ok
          THEN /\ Throw
               /\ UNCHANGED lintDisk
          ELSE /\ lintDisk' = JSONstringify(DeleteMember(JSONparse(lintDisk), "*.md"))
               /\ trace' = Append(trace, "write .lintstagedrc")
               /\ pc' = "cleanVscodeMarkdown"
               /\ UNCHANGED exitCode
     ELSE /\ pc' = "cleanVscodeMarkdown"
          /\ UNCHANGED <<lintDisk, trace, exitCode>>
  /\ UNCHANGED <<asked, answerVars, memVars, files, pkgDisk, vscodeDisk, ciDisk, readmeDisk>>
  /\ UNCHANGED start

\* If markdownlint removed, clean .vscode/settings.json
CleanVscodeMarkdown ==
  /\ pc = "cleanVscodeMarkdown"
  /\ IF "markdownlint" \notin selectedFeatures /\ existsSync(files, VscodePath)
     THEN IF ~vscodeDisk.ok
          THEN /\ Throw
               /\ UNCHANGED vscodeDisk
          ELSE /\ vscodeDisk' = JSONstringify(DeleteMember(JSONparse(vscodeDisk), "[markdown]"))
               /\ trace' = Append(trace, "write .vscode/settings.json")
               /\ pc' = "stripCi"
               /\ UNCHANGED exitCode
     ELSE /\ pc' = "stripCi"
          /\ UNCHANGED <<vscodeDisk, trace, exitCode>>
  /\ UNCHANGED <<asked, answerVars, memVars, files, pkgDisk, lintDisk, ciDisk, readmeDisk>>
  /\ UNCHANGED start

\* If git hooks removed but CI kept, strip commitlint steps from ci.yml
StripCi ==
  /\ pc = "stripCi"
  /\ IF "gitHooks" \notin selectedFeatures /\ "githubCI" \in selectedFeatures /\ existsSync(files, CiPath)
     THEN /\ ciDisk' = StripCommitlint(ciDisk)
          /\ trace' = Append(trace, "write .github/workflows/ci.yml")
     ELSE UNCHANGED <<ciDisk, trace>>
  /\ pc' = "cleanVscodeCi"
  /\ UNCHANGED <<exitCode, asked, answerVars, memVars, files, pkgDisk, lintDisk, vscodeDisk, readmeDisk>>
  /\ UNCHANGED start

\* If github CI removed, also clean .vscode/settings.json github-actions entry
CleanVscodeCi ==
  /\ pc = "cleanVscodeCi"
  /\ IF "githubCI" \notin selectedFeatures /\ existsSync(files, VscodePath)
     THEN IF ~vscodeDisk.ok
          THEN /\ Throw
               /\ UNCHANGED vscodeDisk
          ELSE /\ vscodeDisk' = JSONstringify(DeleteMember(JSONparse(vscodeDisk), "[github-actions-workflow]"))
               /\ trace' = Append(trace, "write .vscode/settings.json")
               /\ pc' = "removeFeatureFiles"
               /\ UNCHANGED exitCode
     ELSE /\ pc' = "removeFeatureFiles"
          /\ UNCHANGED <<vscodeDisk, trace, exitCode>>
  /\ UNCHANGED <<asked, answerVars, memVars, files, pkgDisk, lintDisk, ciDisk, readmeDisk>>
  /\ UNCHANGED start

\* the rule with "or" for "and"
WithGithubDirEither(paths, selected) ==
  IF "githubTemplates" \notin selected \/ "githubCI" \notin selected
  THEN Append(paths, <<".github">>)
  ELSE paths

\* If both github templates and CI removed, remove entire .github/
WithGithubDir(paths, selected) ==
  IF "githubTemplates" \notin selected /\ "githubCI" \notin selected
  THEN Append(paths, <<".github">>)
  ELSE paths

\* the .github rule, then removeFiles(filesToRemove)
RemoveFeatureFiles ==
  /\ pc = "removeFeatureFiles"
  /\ filesToRemove' = WithGithubDir(filesToRemove, selectedFeatures)
  /\ files' = removeFiles(files, filesToRemove')
  /\ trace' = Append(trace, "removeFiles(filesToRemove)")
  /\ pc' = "writePkg"
  /\ UNCHANGED <<exitCode, asked, answerVars, pkg, deselected, depsToRemove, scriptsToRemove,
                 pkgDisk, lintDisk, vscodeDisk, ciDisk, readmeDisk>>
  /\ UNCHANGED start

\* -------------------------------------------------- manifest, setup, install

\* delete devDeps["@clack/prompts"]; delete pkg["bun-create"]
StripSetupKeys(obj) ==
  [ obj EXCEPT !.devDependencies = IF "devDependencies" \in obj.keys
                                   THEN [ d \in (DOMAIN @) \ {"@clack/prompts"} |-> @[d] ]
                                   ELSE @,
               !.keys = @ \ {"bun-create"} ]

\* JSON.stringify of the manifest object: the keys it has, with their values
writePkg(obj) == PkgText(obj)

\* the manifest written only when a dependency was removed
WritePkgIfDeps ==
  /\ pc = "writePkg"
  /\ pkg' = StripSetupKeys(pkg)
  /\ IF Len(depsToRemove) > 0
     THEN /\ pkgDisk' = writePkg(pkg')
          /\ files' = files \cup {<<"package.json">>}
          /\ trace' = Append(trace, "write package.json")
     ELSE UNCHANGED <<pkgDisk, files, trace>>
  /\ pc' = "removeSetup"
  /\ UNCHANGED <<exitCode, asked, answerVars, deselected, depsToRemove, filesToRemove, scriptsToRemove,
                 lintDisk, vscodeDisk, ciDisk, readmeDisk>>
  /\ UNCHANGED start

WritePkg ==
  /\ pc = "writePkg"
  /\ pkg' = StripSetupKeys(pkg)
  /\ pkgDisk' = writePkg(pkg')
  /\ files' = files \cup {<<"package.json">>}
  /\ trace' = Append(trace, "write package.json")
  /\ pc' = "removeSetup"
  /\ UNCHANGED <<exitCode, asked, answerVars, deselected, depsToRemove, filesToRemove, scriptsToRemove,
                 lintDisk, vscodeDisk, ciDisk, readmeDisk>>
  /\ UNCHANGED start

\* the setup directory removed only together with the reinstall
RemoveSetupIfDeps ==
  /\ pc = "removeSetup"
  /\ IF Len(depsToRemove) > 0
     THEN /\ files' = removeFiles(files, << <<"setup">> >>)
          /\ trace' = Append(trace, "removeFiles(setup)")
     ELSE UNCHANGED <<files, trace>>
  /\ pc' = "reinstall"
  /\ UNCHANGED <<exitCode, asked, answerVars, memVars, pkgDisk, lintDisk, vscodeDisk, ciDisk, readmeDisk>>
  /\ UNCHANGED start

RemoveSetup ==
  /\ pc = "removeSetup"
  /\ files' = removeFiles(files, << <<"setup">> >>)
  /\ trace' = Append(trace, "removeFiles(setup)")
  /\ pc' = "reinstall"
  /\ UNCHANGED <<exitCode, asked, answerVars, memVars, pkgDisk, lintDisk, vscodeDisk, ciDisk, readmeDisk>>
  /\ UNCHANGED start

\* the reinstall without its condition
ReinstallAlways ==
  /\ pc = "reinstall"
  /\ \/ /\ trace' = Append(trace, "bun install")
        /\ pc' = "generateReadme"
     \/ /\ trace' = trace \o <<"bun install", "throw">>
        /\ pc' = "thrown"
  /\ UNCHANGED <<exitCode, asked, answerVars, memVars, diskVars>>
  /\ UNCHANGED start

\* if (depsToRemove.length > 0) await $`bun install`: it returns, or exits non-zero and throws
Reinstall ==
  /\ pc = "reinstall"
  /\ IF Len(depsToRemove) > 0
     THEN \/ /\ trace' = Append(trace, "bun install")
             /\ pc' = "generateReadme"
          \/ /\ trace' = trace \o <<"bun install", "throw">>
             /\ pc' = "thrown"
     ELSE /\ pc' = "generateReadme"
          /\ UNCHANGED trace
  /\ UNCHANGED <<exitCode, asked, answerVars, memVars, diskVars>>
  /\ UNCHANGED start

\* ------------------------------------------------------------------ README

\* basename(PROJECT_DIR)
projectName == "myproject"

GitHooksBullet == "- **Git Hooks:** Husky + lint-staged + commitlint"

MarkdownLintBullet == "- **Markdown Linting:** markdownlint"

CommitConventionSection ==
  Lines(<< "", "## Commit Convention", "",
           "This project uses [Conventional Commits](https://www.conventionalcommits.org/).",
           "", "'''text", "feat: add new feature", "fix: resolve bug", "docs: update documentation",
           "chore: maintenance tasks", "'''" >>)

\* the commit-convention section under the markdownlint test
generateReadmeWrongTest(name, desc, features) ==
  << <<"# ", name>>, <<"">>,
     <<IF desc # "" THEN desc ELSE "A TypeScript project powered by Bun.">> >>
  \o Lines(<< "", "## Stack", "",
              "- **Runtime:** [Bun](https://bun.sh)",
              "- **Language:** TypeScript (strict mode)",
              "- **Linting/Formatting:** [Biome](https://biomejs.dev)" >>)
  \o (IF "gitHooks" \in features THEN Lines(<<GitHooksBullet>>) ELSE <<>>)
  \o (IF "markdownlint" \in features THEN Lines(<<MarkdownLintBullet>>) ELSE <<>>)
  \o Lines(<< "", "## Getting Started", "", "'''bash", "bun install", "bun start", "'''",
              "", "## Scripts", "",
              "| Command | Description |", "| --- | --- |",
              "| 'bun start' | Run the project |", "| 'bun test' | Run tests |",
              "| 'bun run lint' | Check for lint/format issues |",
              "| 'bun run format' | Fix lint/format issues |" >>)
  \o (IF "markdownlint" \in features THEN CommitConventionSection ELSE <<>>)
  \o Lines(<< "" >>)

\* the lines generateReadme joins and writes to README.md (a backquote is written ')
generateReadme(name, desc, features) ==
  << <<"# ", name>>, <<"">>,
     <<IF desc # "" THEN desc ELSE "A TypeScript project powered by Bun.">> >>
  \o Lines(<< "", "## Stack", "",
              "- **Runtime:** [Bun](https://bun.sh)",
              "- **Language:** TypeScript (strict mode)",
              "- **Linting/Formatting:** [Biome](https://biomejs.dev)" >>)
  \o (IF "gitHooks" \in features THEN Lines(<<GitHooksBullet>>) ELSE <<>>)
  \o (IF "markdownlint" \in features THEN Lines(<<MarkdownLintBullet>>) ELSE <<>>)
  \o Lines(<< "", "## Getting Started", "", "'''bash", "bun install", "bun start", "'''",
              "", "## Scripts", "",
              "| Command | Description |", "| --- | --- |",
              "| 'bun start' | Run the project |", "| 'bun test' | Run tests |",
              "| 'bun run lint' | Check for lint/format issues |",
              "| 'bun run format' | Fix lint/format issues |" >>)
  \o (IF "gitHooks" \in features THEN CommitConventionSection ELSE <<>>)
  \o Lines(<< "" >>)

GenerateReadme ==
  /\ pc = "generateReadme"
  /\ readmeDisk' = generateReadme(projectName, description, selectedFeatures)
  /\ files' = files \cup {<<"README.md">>}
  /\ trace' = Append(trace, "write README.md")
  /\ pc' = "handleLicense"
  /\ UNCHANGED <<exitCode, asked, answerVars, memVars, pkgDisk, lintDisk, vscodeDisk, ciDisk>>
  /\ UNCHANGED start

\* ----------------------------------------------------------------- license

\* the license the template's LICENSE file holds
ShippedLicense == "Apache-2.0"

\* the license step comparing with the value the prompt starts from
HandleLicenseInitialValue ==
  /\ pc = "handleLicense"
  /\ IF license # LicenseInitialValue
     THEN IF license = "UNLICENSED"
          THEN /\ files' = removeFiles(files, << <<"LICENSE">> >>)
               /\ trace' = Append(trace, "removeFiles(LICENSE)")
          ELSE /\ trace' = Append(trace, "log.info license")
               /\ UNCHANGED files
     ELSE UNCHANGED <<files, trace>>
  /\ pc' = "summary"
  /\ UNCHANGED <<exitCode, asked, answerVars, memVars, pkgDisk, lintDisk, vscodeDisk, ciDisk, readmeDisk>>
  /\ UNCHANGED start

HandleLicense ==
  /\ pc = "handleLicense"
  /\ IF license # ShippedLicense
     THEN IF license = "UNLICENSED"
          THEN /\ files' = removeFiles(files, << <<"LICENSE">> >>)
               /\ trace' = Append(trace, "removeFiles(LICENSE)")
          ELSE /\ trace' = Append(trace, "log.info license")
               /\ UNCHANGED files
     ELSE UNCHANGED <<files, trace>>
  /\ pc' = "summary"
  /\ UNCHANGED <<exitCode, asked, answerVars, memVars, pkgDisk, lintDisk, vscodeDisk, ciDisk, readmeDisk>>
  /\ UNCHANGED start

\* the features note and the outro; main() returns
Summary ==
  /\ pc = "summary"
  /\ trace' = trace \o <<"note", "outro">>
  /\ pc' = "done"
  /\ exitCode' = 0
  /\ UNCHANGED <<asked, answerVars, memVars, diskVars>>
  /\ UNCHANGED start

\* main().catch: log the error and exit 1
Catch ==
  /\ pc = "thrown"
  /\ trace' = Append(trace, "Setup failed:")
  /\ pc' = "exited"
  /\ exitCode' = 1
  /\ UNCHANGED <<asked, answerVars, memVars, diskVars>>
  /\ UNCHANGED start

Next ==
  \/ PromptDescription
  \/ PromptVersion
  \/ PromptAuthor
  \/ PromptLicense
  \/ PromptPrivate
  \/ PromptEntrypoint
  \/ PromptFeatures
  \/ Configure
  \/ CleanLintStaged
  \/ CleanVscodeMarkdown
  \/ StripCi
  \/ CleanVscodeCi
  \/ RemoveFeatureFiles
  \/ WritePkg
  \/ RemoveSetup
  \/ Reinstall
  \/ GenerateReadme
  \/ HandleLicense
  \/ Summary
  \/ Catch

Spec == Init /\ [][Next]_vars

\* ------------------------------------------------------------- properties

Count(s, x) == Cardinality({ i \in DOMAIN s : s[i] = x })

Did(e) == Contains(trace, e)

Before(e1, e2) == Did(e1) /\ Did(e2) /\ IndexOf(trace, e1) < IndexOf(trace, e2)

AllFeatures == Range(FeatureKeys)

PromptOrder == <<"description", "version", "author", "license", "private", "entrypoint", "features">>

AllAnswered == Len(asked) = 7 /\ \A i \in DOMAIN asked : ~asked[i].cancelled

Ended == pc \in {"done", "exited"}

\* C1: once removeFiles(filesToRemove) has been called, filesToRemove holds every
\* path of every deselected feature, no path of a selected feature, and nothing
\* else but the ".github" entry of the cross-feature rule.
C1_FilesToRemove ==
  Did("removeFiles(filesToRemove)") =>
    /\ \A k \in AllFeatures \ selectedFeatures : Range(FEATURES[k].files) \subseteq Range(filesToRemove)
    /\ \A k \in selectedFeatures : Range(FEATURES[k].files) \cap Range(filesToRemove) = {}
    /\ Range(filesToRemove) \subseteq
         UNION { Range(FEATURES[k].files) : k \in AllFeatures \ selectedFeatures } \cup { <<".github">> }

\* the example of the spec: only the CI workflow is kept
C1_Witness ==
  /\ pc = "done"
  /\ selectedFeatures = {"githubCI"}
  /\ Range(filesToRemove) = { <<".husky">>, <<"commitlint.config.js">>, <<".lintstagedrc">>,
                              <<".github", "ISSUE_TEMPLATE">>, <<".github", "PULL_REQUEST_TEMPLATE.md">>,
                              <<".markdownlint.json">>, <<".markdownlintignore">>,
                              <<"CODE_OF_CONDUCT.md">>, <<"CLAUDE.md">> }

DevDepsOnDisk(text) == IF text.ok /\ "devDependencies" \in text.obj.keys THEN text.obj.devDependencies ELSE EmptyMap

\* C2: the manifest the run writes has no devDependencies key of a deselected
\* feature, and every devDependencies key of a selected feature that the manifest
\* read from disk had is still there with the same value.
C2_ManifestDeps ==
  Did("write package.json") =>
    /\ pkgDisk.ok
    /\ \A k \in AllFeatures \ selectedFeatures :
         Range(FEATURES[k].devDeps) \cap DOMAIN DevDepsOnDisk(pkgDisk) = {}
    /\ \A k \in selectedFeatures : \A d \in Range(FEATURES[k].devDeps) :
         d \in DOMAIN DevDepsOnDisk(start.pkg) =>
           /\ d \in DOMAIN DevDepsOnDisk(pkgDisk)
           /\ DevDepsOnDisk(pkgDisk)[d] = DevDepsOnDisk(start.pkg)[d]

C2_Witness ==
  /\ pc = "done"
  /\ selectedFeatures = {"gitHooks", "githubCI"}
  /\ start.pkg = PkgText(TemplateManifest(1))
  /\ DOMAIN DevDepsOnDisk(pkgDisk) = {"@commitlint/cli", "@commitlint/config-conventional", "husky", "lint-staged", "typescript"}

LicenseStepDone == pc \in {"summary", "done"}

\* C3 as stated, the default license being the one the license prompt starts
\* from: the LICENSE file is deleted iff UNLICENSED is chosen, a license that is
\* neither UNLICENSED nor the default gets the advisory, the default gets none.
C3_Original ==
  LicenseStepDone =>
    /\ Did("removeFiles(LICENSE)") <=> license = "UNLICENSED"
    /\ license \notin {"UNLICENSED", LicenseInitialValue} => Did("log.info license") /\ ~Did("removeFiles(LICENSE)")
    /\ license = LicenseInitialValue => ~Did("log.info license") /\ ~Did("removeFiles(LICENSE)")

\* C3 (amended): the LICENSE file is deleted iff UNLICENSED is chosen; every
\* license that is neither UNLICENSED nor Apache-2.0 leaves the file in place and
\* gets the advisory, the prompt's default MIT included; Apache-2.0 leaves the
\* file in place and gets no advisory.
C3_LicenseStep ==
  LicenseStepDone =>
    /\ Did("removeFiles(LICENSE)") <=> license = "UNLICENSED"
    /\ license = "UNLICENSED" => <<"LICENSE">> \notin files /\ ~Did("log.info license")
    /\ license \notin {"UNLICENSED", "Apache-2.0"} =>
         /\ Did("log.info license")
         /\ (<<"LICENSE">> \in files) = (<<"LICENSE">> \in start.files)
    /\ license = "Apache-2.0" =>
         /\ ~Did("log.info license")
         /\ (<<"LICENSE">> \in files) = (<<"LICENSE">> \in start.files)

C3_Witness ==
  /\ pc = "done"
  /\ license = LicenseInitialValue
  /\ Did("log.info license")
  /\ <<"LICENSE">> \in files

DiskEffects ==
  { "write .lintstagedrc", "write .vscode/settings.json", "write .github/workflows/ci.yml",
    "removeFiles(filesToRemove)", "write package.json", "removeFiles(setup)", "bun install",
    "write README.md", "removeFiles(LICENSE)" }

\* C4: a prompt that returns the cancel symbol ends the process with exit code 0
\* there: it is the last prompt asked, the prompts before it are the ones that
\* precede it in the sequence, and nothing on disk differs from the start.
C4_Cancel ==
  \A i \in DOMAIN asked : asked[i].cancelled =>
    /\ i = Len(asked)
    /\ pc = "exited" /\ exitCode = 0
    /\ [ j \in DOMAIN asked |-> asked[j].prompt ] = SubSeq(PromptOrder, 1, i)
    /\ Range(trace) \cap DiskEffects = {}
    /\ files = start.files /\ pkgDisk = start.pkg /\ lintDisk = start.lint
    /\ vscodeDisk = start.vscode /\ ciDisk = start.ci /\ readmeDisk = TemplateReadme

C4_Witness ==
  /\ Len(asked) = 7
  /\ asked[7].cancelled
  /\ exitCode = 0

SetupGone == \A q \in files : ~IsPrefix(<<"setup">>, q)

\* C5 as stated: a completed run has removed the setup directory, and removed it
\* after the manifest rewrite, the feature file removal, the reinstall and the
\* README regeneration.
C5_Original ==
  pc = "done" =>
    /\ SetupGone
    /\ Before("write package.json", "removeFiles(setup)")
    /\ Before("removeFiles(filesToRemove)", "removeFiles(setup)")
    /\ Did("bun install") => Before("bun install", "removeFiles(setup)")
    /\ Before("write README.md", "removeFiles(setup)")

\* C5 (amended): for every answer set a completed run has removed the setup
\* directory; the removal comes after the feature file removal and the manifest
\* rewrite, and before the reinstall, the README regeneration and the license step.
C5_SetupRemoved ==
  /\ pc = "done" =>
       /\ SetupGone
       /\ Before("removeFiles(filesToRemove)", "removeFiles(setup)")
       /\ Before("write package.json", "removeFiles(setup)")
       /\ Did("bun install") => Before("removeFiles(setup)", "bun install")
       /\ Before("removeFiles(setup)", "write README.md")
  /\ Did("bun install") \/ Did("write README.md") \/ Did("removeFiles(LICENSE)") \/ Did("log.info license") => SetupGone

C5_Witness ==
  /\ pc = "done"
  /\ <<"setup">> \in start.files
  /\ SetupGone
  /\ Before("removeFiles(setup)", "bun install")
  /\ Before("bun install", "write README.md")

\* C6 as stated: a run in which all prompts are answered overwrites the manifest
\* exactly once, whatever the project files hold.
C6_Original ==
  AllAnswered /\ Ended => Count(trace, "write package.json") = 1

\* C6 (amended): a run in which all prompts are answered overwrites the manifest
\* at most once: exactly once when it gets as far as writePkg, as every run that
\* completes does, and not at all when the manifest or a shared config file read
\* by a cross-feature rule fails to parse, which aborts the run before writePkg.
C6_ManifestWrites ==
  /\ Count(trace, "write package.json") <= 1
  /\ pc \in {"removeSetup", "reinstall", "generateReadme", "handleLicense", "summary", "done"} =>
       Count(trace, "write package.json") = 1
  /\ exitCode = 1 /\ Did("bun install") => Count(trace, "write package.json") = 1
  /\ AllAnswered /\ Ended /\ exitCode = 1 /\ ~Did("bun install") =>
       /\ Count(trace, "write package.json") = 0
       /\ pkgDisk = start.pkg
       /\ \/ ~start.pkg.ok
          \/ ~start.lint.ok /\ "markdownlint" \notin selectedFeatures /\ "gitHooks" \in selectedFeatures
          \/ ~start.vscode.ok /\ {"markdownlint", "githubCI"} \ selectedFeatures # {}

C6_Witness ==
  /\ AllAnswered /\ Ended /\ exitCode = 1
  /\ ~start.lint.ok
  /\ start.pkg.ok
  /\ Count(trace, "write package.json") = 0

ReadmeWritten == Did("write README.md")

\* C7: ".github" is in filesToRemove iff githubTemplates and githubCI are both
\* deselected (so never when githubCI is selected), and no feature's file list
\* names ".github" itself.
C7_GithubDir ==
  /\ Did("removeFiles(filesToRemove)") =>
       (Contains(filesToRemove, <<".github">>) <=>
          ("githubTemplates" \notin selectedFeatures /\ "githubCI" \notin selectedFeatures))
  /\ \A k \in AllFeatures : <<".github">> \notin Range(FEATURES[k].files)

C7_Witness ==
  /\ pc = "done"
  /\ "githubTemplates" \notin selectedFeatures /\ "githubCI" \notin selectedFeatures
  /\ Contains(filesToRemove, <<".github">>)
  /\ <<".github">> \in start.files /\ <<".github">> \notin files

OtherEntries(text) == { m \in Range(JSONparse(text)) : m[1] # "*.md" }

\* C8: with gitHooks selected, markdownlint deselected and a lint-staged config
\* present at the start, a completed run leaves the file in place (it is not in
\* filesToRemove nor under a removed path), without a "*.md" entry, its other
\* entries as they were.
C8_LintStaged ==
  ( /\ pc = "done"
    /\ "gitHooks" \in selectedFeatures /\ "markdownlint" \notin selectedFeatures
    /\ LintStagedPath \in start.files ) =>
    /\ LintStagedPath \in files
    /\ \A i \in DOMAIN filesToRemove : ~IsPrefix(filesToRemove[i], LintStagedPath)
    /\ lintDisk.ok
    /\ \A i \in DOMAIN lintDisk.pairs : lintDisk.pairs[i][1] # "*.md"
    /\ OtherEntries(lintDisk) = OtherEntries(start.lint)

C8_Witness ==
  /\ pc = "done"
  /\ "gitHooks" \in selectedFeatures /\ "markdownlint" \notin selectedFeatures
  /\ LintStagedPath \in start.files
  /\ HasMember(JSONparse(start.lint), "*.md")
  /\ lintDisk.pairs = << <<"*.ts", 4>> >>

HasLines(text, part) == \E i \in 0..(Len(text) - Len(part)) : SubSeq(text, i + 1, i + Len(part)) = part

DepsMarked == "gitHooks" \notin selectedFeatures \/ "markdownlint" \notin selectedFeatures

\* C10: bun install runs at most once, only when a dependency was marked for
\* removal (gitHooks or markdownlint deselected), always in that case once the
\* run is past the reinstall step, and the README is not written before it has
\* returned.
C10_Reinstall ==
  /\ Count(trace, "bun install") <= 1
  /\ Did("bun install") => DepsMarked /\ Len(depsToRemove) > 0
  /\ pc \in {"generateReadme", "handleLicense", "summary", "done"} => (Did("bun install") <=> DepsMarked)
  /\ ReadmeWritten /\ DepsMarked =>
       /\ Before("bun install", "write README.md")
       /\ trace[IndexOf(trace, "bun install") + 1] # "throw"
  /\ Did("bun install") /\ trace[Len(trace)] = "throw" => ~ReadmeWritten /\ pc = "thrown"

C10_Witness ==
  /\ pc = "done"
  /\ selectedFeatures = AllFeatures \ {"markdownlint"}
  /\ Before("bun install", "write README.md")

====
